---------------------------- MODULE Spec2Model ----------------------------
(***************************************************************************)
(* Model of src/src/adapter_1.rs: the Circular trait, RoundHole, RoundPeg, *)
(* SquarePeg, SquarePegAdapter and run().                                  *)
(*                                                                         *)
(* f64 is modelled as a binary floating-point format of the IEEE-754 kind  *)
(* with a reduced precision and exponent range: PrecBits significand bits, *)
(* exponents Emin..Emax, subnormals, +/-infinity and NaN, every operation  *)
(* rounded to nearest, ties to even.  A finite value is held as the        *)
(* integer number of smallest-subnormal units it is worth, so that all     *)
(* arithmetic is exact integer arithmetic followed by one rounding.  The   *)
(* two zeros are one value: no operation of the program tells them apart.  *)
(***************************************************************************)
EXTENDS Integers, Sequences, FiniteSets

(***************************************************************************)
(* Bounds of the model.                                                    *)
(***************************************************************************)
PrecBits == 3
ExpSpan == 4
MaxCalls == 2
MaxFits == 2

(***************************************************************************)
(* The floating-point format.                                              *)
(***************************************************************************)
RECURSIVE Pow2(_)
Pow2(n) == IF n <= 0 THEN 1 ELSE 2 * Pow2(n - 1)

Emax == ExpSpan
Emin == 1 - Emax

\* 1.0 in units of the smallest subnormal, 2^(Emin - PrecBits + 1)
One == Pow2(PrecBits - 1 - Emin)

\* 2^(Emax + 1) in units: what a result rounds to when it overflows
Inf == Pow2(PrecBits) * Pow2(Emax - Emin)
NaN == Inf + 1

Abs(x) == IF x < 0 THEN -x ELSE x
Sign(x) == IF x < 0 THEN -1 ELSE 1

Magnitudes == { m * Pow2(j) : m \in 0 .. (Pow2(PrecBits) - 1), j \in 0 .. (Emax - Emin) }
Finite == Magnitudes \cup { -x : x \in Magnitudes }
F64 == Finite \cup { Inf, -Inf, NaN }

IsNaN(x) == x = NaN
IsInf(x) == x = Inf \/ x = -Inf
IsFinite(x) == ~IsNaN(x) /\ ~IsInf(x)

\* the spacing of the format at the magnitude n/d (n >= 0, d > 0), from q up
RECURSIVE Quantum(_, _, _)
Quantum(n, d, q) == IF n < Pow2(PrecBits) * q * d THEN q ELSE Quantum(n, d, 2 * q)

\* n/d (n >= 0, d > 0, in units) rounded to nearest, ties to even
RoundMagnitude(n, d) ==
    LET q == Quantum(n, d, 1)
        k == n \div (d * q)
        rem == n - k * d * q
        up == \/ 2 * rem > d * q
              \/ 2 * rem = d * q /\ k % 2 = 1
        r == IF up THEN (k + 1) * q ELSE k * q
    IN  IF r >= Inf THEN Inf ELSE r

\* a literal such as 5.0: small integers are exact in the format
Lit(n) == n * One

\* a * b
Mul(a, b) ==
    IF IsNaN(a) \/ IsNaN(b) THEN NaN
    ELSE IF IsInf(a) \/ IsInf(b)
         THEN IF a = 0 \/ b = 0 THEN NaN ELSE Sign(a) * Sign(b) * Inf
    ELSE Sign(a) * Sign(b) * RoundMagnitude(Abs(a) * Abs(b), One)

\* a / b
Div(a, b) ==
    IF IsNaN(a) \/ IsNaN(b) THEN NaN
    ELSE IF IsInf(a) THEN (IF IsInf(b) THEN NaN ELSE Sign(a) * Sign(b) * Inf)
    ELSE IF IsInf(b) THEN 0
    ELSE IF b = 0 THEN (IF a = 0 THEN NaN ELSE Sign(a) * Inf)
    ELSE Sign(a) * Sign(b) * RoundMagnitude(Abs(a) * One, Abs(b))

\* f is nearer than g to the square root of t/One (all in units)
NearerRoot(f, g, t) ==
    IF f < g THEN (f + g) * (f + g) > 4 * t * One
             ELSE (f + g) * (f + g) < 4 * t * One

\* f64::sqrt: correctly rounded
Sqrt(x) ==
    IF IsNaN(x) \/ x < 0 THEN NaN
    ELSE IF x = Inf \/ x = 0 THEN x
    ELSE CHOOSE f \in Magnitudes : \A g \in Magnitudes \ {f} : NearerRoot(f, g, x)

\* a >= b on f64: false when either side is NaN
Ge(a, b) == ~IsNaN(a) /\ ~IsNaN(b) /\ a >= b

(***************************************************************************)
(* The types of adapter_1.rs.  A struct is a record; type names the struct.*)
(***************************************************************************)
NoValue == [type |-> "None"]

\* RoundHole::new were it to validate: a negative radius is raised to zero
RoundHole_new_clamped(radius) ==
    [type |-> "RoundHole", radius |-> IF radius < 0 THEN 0 ELSE radius]

\* RoundHole::new
RoundHole_new(radius) == [type |-> "RoundHole", radius |-> radius]

\* the struct literal RoundPeg {radius: ...}
RoundPeg_lit(radius) == [type |-> "RoundPeg", radius |-> radius]

\* SquarePeg::new
SquarePeg_new(width) == [type |-> "SquarePeg", width |-> width]

\* SquarePeg::get_width
get_width(self) == self.width

\* SquarePegAdapter::new
SquarePegAdapter_new(peg) == [type |-> "SquarePegAdapter", peg |-> peg]

\* get_radius of a RoundPeg were it to return the diameter
RoundPeg_get_radius_doubled(self) == Mul(self.radius, Lit(2))

\* impl Circular for RoundPeg
RoundPeg_get_radius(self) == self.radius

\* f64::sqrt(2.0), the same value at every call
SqrtOfTwo == Sqrt(Lit(2))

\* get_radius of the adapter were it to leave out the division: the diagonal
SquarePegAdapter_get_radius_diagonal(self) == Mul(get_width(self.peg), SqrtOfTwo)

\* impl Circular for SquarePegAdapter
SquarePegAdapter_get_radius(self) ==
    Div(Mul(get_width(self.peg), SqrtOfTwo), Lit(2))

\* the types that implement Circular
Circular == { "RoundPeg", "SquarePegAdapter" }

\* Circular::get_radius, dispatched on the implementing type
get_radius(self) ==
    IF self.type = "RoundPeg" THEN RoundPeg_get_radius(self)
                              ELSE SquarePegAdapter_get_radius(self)

\* fits were its comparison exclusive
fits_exclusive(self, peg) ==
    Ge(self.radius, get_radius(peg)) /\ self.radius # get_radius(peg)

\* fits were its comparison the other way round
fits_reversed(self, peg) == Ge(get_radius(peg), self.radius)

\* RoundHole::fits
fits(self, peg) == Ge(self.radius, get_radius(peg))

(***************************************************************************)
(* State.  pc = "api": a caller drives the types directly, one hole and a  *)
(* sequence of shapes, each built, asked for its radius and then moved     *)
(* into fits.  Any other pc: run() is executing and pc is its next line.   *)
(***************************************************************************)
VARIABLES
    pc,         \* "api", or the next line of run()
    hole,       \* the caller's RoundHole
    holeArg,    \* the argument RoundHole::new was given
    peg,        \* the caller's current shape, NoValue once moved
    radii,      \* what get_radius returned for that shape, in call order
    twinRadii,  \* what get_radius returned for a second adapter of that width
    checked,    \* the shape the last fits call consumed
    result,     \* what that fits call returned
    nFits,      \* fits calls made on hole
    locals,     \* run(): the live local variables
    returned,   \* run(): what each fits call returned, in call order
    out         \* run(): the lines printed, text and the value formatted

vars == <<pc, hole, holeArg, peg, radii, twinRadii, checked, result, nFits,
          locals, returned, out>>

apiVars == <<hole, holeArg, peg, radii, twinRadii, checked, result, nFits>>
runVars == <<locals, returned, out>>

Init ==
    /\ pc \in { "api", "l60" }
    /\ hole = NoValue
    /\ holeArg = 0
    /\ peg = NoValue
    /\ radii = <<>>
    /\ twinRadii = <<>>
    /\ checked = NoValue
    /\ result = FALSE
    /\ nFits = 0
    /\ locals = [n \in {} |-> NoValue]
    /\ returned = <<>>
    /\ out = <<>>

(***************************************************************************)
(* The API driven by a caller.                                             *)
(***************************************************************************)
\* let hole = RoundHole::new(r), for any r: new checks nothing
NewHole ==
    /\ pc = "api"
    /\ hole = NoValue
    /\ \E r \in F64 :
          /\ hole' = RoundHole_new(r)
          /\ holeArg' = r
    /\ UNCHANGED <<pc, peg, radii, twinRadii, checked, result, nFits, runVars>>

\* the caller may start on its next shape
CanStartShape ==
    /\ pc = "api"
    /\ hole # NoValue
    /\ peg = NoValue
    /\ checked = NoValue
    /\ nFits < MaxFits

\* let peg = RoundPeg {radius: r}, for any r
NewRoundPeg ==
    /\ CanStartShape
    /\ \E r \in F64 : peg' = RoundPeg_lit(r)
    /\ UNCHANGED <<pc, hole, holeArg, radii, twinRadii, checked, result, nFits, runVars>>

\* let peg = SquarePeg::new(w), for any w
NewSquarePeg ==
    /\ CanStartShape
    /\ \E w \in F64 : peg' = SquarePeg_new(w)
    /\ UNCHANGED <<pc, hole, holeArg, radii, twinRadii, checked, result, nFits, runVars>>

\* let peg = SquarePegAdapter::new(peg)
NewAdapter ==
    /\ pc = "api"
    /\ peg.type = "SquarePeg"
    /\ peg' = SquarePegAdapter_new(peg)
    /\ UNCHANGED <<pc, hole, holeArg, radii, twinRadii, checked, result, nFits, runVars>>

\* get_radius were it to keep its result in the square's width
CallGetRadius_writeback ==
    /\ pc = "api"
    /\ peg.type \in Circular
    /\ Len(radii) < MaxCalls
    /\ radii' = Append(radii, get_radius(peg))
    /\ peg' = IF peg.type = "SquarePegAdapter"
              THEN SquarePegAdapter_new(SquarePeg_new(get_radius(peg)))
              ELSE peg
    /\ UNCHANGED <<pc, hole, holeArg, twinRadii, checked, result, nFits, runVars>>

\* peg.get_radius(): &self, the shape is only read
CallGetRadius ==
    /\ pc = "api"
    /\ peg.type \in Circular
    /\ Len(radii) < MaxCalls
    /\ radii' = Append(radii, get_radius(peg))
    /\ UNCHANGED <<pc, hole, holeArg, peg, twinRadii, checked, result, nFits, runVars>>

\* SquarePegAdapter::new(SquarePeg::new(peg.peg.get_width())).get_radius():
\* a second adapter around a square of the same width
CallTwin ==
    /\ pc = "api"
    /\ peg.type = "SquarePegAdapter"
    /\ twinRadii = <<>>
    /\ twinRadii' = <<get_radius(SquarePegAdapter_new(SquarePeg_new(get_width(peg.peg))))>>
    /\ UNCHANGED <<pc, hole, holeArg, peg, radii, checked, result, nFits, runVars>>

\* fits were it to take &mut self and leave the hole no larger than the
\* shape it has just let through
CallFits_wearing ==
    /\ pc = "api"
    /\ peg.type \in Circular
    /\ result' = fits(hole, peg)
    /\ hole' = IF result' THEN RoundHole_new(get_radius(peg)) ELSE hole
    /\ checked' = peg
    /\ peg' = NoValue
    /\ nFits' = nFits + 1
    /\ UNCHANGED <<pc, holeArg, radii, twinRadii, runVars>>

\* hole.fits(peg): &self on the hole, the shape is moved in
CallFits ==
    /\ pc = "api"
    /\ peg.type \in Circular
    /\ result' = fits(hole, peg)
    /\ checked' = peg
    /\ peg' = NoValue
    /\ nFits' = nFits + 1
    /\ UNCHANGED <<pc, hole, holeArg, radii, twinRadii, runVars>>

\* the caller is done with the check: its result and the radii it read go
\* out of scope
EndCheck ==
    /\ pc = "api"
    /\ checked # NoValue
    /\ checked' = NoValue
    /\ result' = FALSE
    /\ radii' = <<>>
    /\ twinRadii' = <<>>
    /\ UNCHANGED <<pc, hole, holeArg, peg, nFits, runVars>>

Api ==
    \/ NewHole
    \/ NewRoundPeg
    \/ NewSquarePeg
    \/ NewAdapter
    \/ CallGetRadius
    \/ CallTwin
    \/ CallFits
    \/ EndCheck

(***************************************************************************)
(* run(), one action per statement.                                        *)
(***************************************************************************)
NoLocals == [n \in {} |-> NoValue]

\* let name = val
Bind(l, name, val) == [n \in DOMAIN l \cup {name} |-> IF n = name THEN val ELSE l[n]]

\* name is moved out of and can no longer be used
Move(l, name) == [n \in DOMAIN l \ {name} |-> l[n]]

\* "{}" of a bool
FormatBool(b) == IF b THEN "true" ELSE "false"

\* println!(text, value)
Println(o, text, value) == Append(o, <<text, FormatBool(value)>>)

Line60 ==
    /\ pc = "l60"
    /\ locals' = Bind(locals, "hole", RoundHole_new(Lit(5)))
    /\ pc' = "l62"
    /\ UNCHANGED <<apiVars, returned, out>>

Line62 ==
    /\ pc = "l62"
    /\ locals' = Bind(locals, "rpeg", RoundPeg_lit(Lit(5)))
    /\ pc' = "l63"
    /\ UNCHANGED <<apiVars, returned, out>>

Line63 ==
    /\ pc = "l63"
    /\ LET r == fits(locals["hole"], locals["rpeg"])
       IN  /\ returned' = Append(returned, r)
           /\ out' = Println(out, "Round peg r5 fits round hole r5: ", r)
    /\ locals' = Move(locals, "rpeg")
    /\ pc' = "l66"
    /\ UNCHANGED apiVars

Line66 ==
    /\ pc = "l66"
    /\ locals' = Bind(locals, "small_sqpeg", SquarePeg_new(Lit(5)))
    /\ pc' = "l67"
    /\ UNCHANGED <<apiVars, returned, out>>

Line67 ==
    /\ pc = "l67"
    /\ locals' = Bind(Move(locals, "small_sqpeg"), "small_sqpeg_adapter",
                      SquarePegAdapter_new(locals["small_sqpeg"]))
    /\ pc' = "l69"
    /\ UNCHANGED <<apiVars, returned, out>>

Line69 ==
    /\ pc = "l69"
    /\ locals' = Bind(locals, "large_sqpeg", SquarePeg_new(Lit(10)))
    /\ pc' = "l70"
    /\ UNCHANGED <<apiVars, returned, out>>

Line70 ==
    /\ pc = "l70"
    /\ locals' = Bind(Move(locals, "large_sqpeg"), "large_sqpeg_adapter",
                      SquarePegAdapter_new(locals["large_sqpeg"]))
    /\ pc' = "l72"
    /\ UNCHANGED <<apiVars, returned, out>>

Line72 ==
    /\ pc = "l72"
    /\ LET r == fits(locals["hole"], locals["small_sqpeg_adapter"])
       IN  /\ returned' = Append(returned, r)
           /\ out' = Println(out, "Square peg w5 fits round hole r5: ", r)
    /\ locals' = Move(locals, "small_sqpeg_adapter")
    /\ pc' = "l73"
    /\ UNCHANGED apiVars

\* line 73 were it to print what fits returned
Line73_plain ==
    /\ pc = "l73"
    /\ LET r == fits(locals["hole"], locals["large_sqpeg_adapter"])
       IN  /\ returned' = Append(returned, r)
           /\ out' = Println(out, "Square peg w10 doesn't fit round hole r5: ", r)
    /\ locals' = NoLocals
    /\ pc' = "done"
    /\ UNCHANGED apiVars

\* the last line prints the negation of what fits returned, then run returns
Line73 ==
    /\ pc = "l73"
    /\ LET r == fits(locals["hole"], locals["large_sqpeg_adapter"])
       IN  /\ returned' = Append(returned, r)
           /\ out' = Println(out, "Square peg w10 doesn't fit round hole r5: ", ~r)
    /\ locals' = NoLocals
    /\ pc' = "done"
    /\ UNCHANGED apiVars

Run ==
    \/ Line60
    \/ Line62
    \/ Line63
    \/ Line66
    \/ Line67
    \/ Line69
    \/ Line70
    \/ Line72
    \/ Line73

Next == Api \/ Run

Spec == Init /\ [][Next]_vars
(***************************************************************************)
(* Properties.                                                             *)
(***************************************************************************)
Adapters == { "SquarePegAdapter" }

\* x is a number and not below zero (+infinity included)
NonNegative(x) == ~IsNaN(x) /\ x >= 0

\* x is a number below zero (-infinity included)
Negative(x) == ~IsNaN(x) /\ x < 0

\* a check has been made and its result is in scope
Checked(types) == checked.type \in types

\* y <= (n/d) * w / sqrt(2) and y >= (n/d) * w / sqrt(2), in exact
\* arithmetic, for w >= 0 and n, d > 0
BelowRoot(y, w, n, d) == y <= 0 \/ 2 * (y * d) * (y * d) <= (n * w) * (n * w)
AboveRoot(y, w, n, d) == y >= 0 /\ 2 * (y * d) * (y * d) >= (n * w) * (n * w)

\* C1: for a hole of radius R and a round peg of radius r, both
\* non-negative, fits returns true exactly when r <= R.
C1_RoundPegFitsIffNotLarger ==
    ( /\ Checked({"RoundPeg"})
      /\ NonNegative(hole.radius)
      /\ NonNegative(checked.radius) )
    => (result <=> checked.radius <= hole.radius)

C1_Witness ==
    /\ Checked({"RoundPeg"})
    /\ IsFinite(hole.radius) /\ hole.radius > 0
    /\ IsFinite(checked.radius) /\ checked.radius > hole.radius
    /\ ~result

\* C2 as stated: for a hole of radius R and a square of width w, both
\* non-negative reals, fits on the adapter returns true exactly when
\* w * sqrt(2) / 2 <= R in exact arithmetic, that is when w^2 <= 2 R^2.
C2_FitsIffCircumscribedCircleNotLarger ==
    ( /\ Checked(Adapters)
      /\ IsFinite(hole.radius) /\ hole.radius >= 0
      /\ IsFinite(checked.peg.width) /\ checked.peg.width >= 0 )
    => (result <=> checked.peg.width * checked.peg.width
                      <= 2 * hole.radius * hole.radius)

\* C2 amended: fits on the adapter returns true exactly when the radius
\* that get_radius returned for it, the rounded f64 value, is <= R.
C2_FitsIffComputedRadiusNotLarger ==
    (Checked(Adapters) /\ radii # <<>>)
    => (result <=> ( /\ ~IsNaN(hole.radius)
                     /\ ~IsNaN(radii[1])
                     /\ radii[1] <= hole.radius ))

\* the rounding has moved the computed radius onto R, from above it
C2_Witness ==
    /\ Checked(Adapters) /\ radii # <<>>
    /\ IsFinite(hole.radius) /\ hole.radius > 0
    /\ radii[1] = hole.radius
    /\ checked.peg.width * checked.peg.width > 2 * hole.radius * hole.radius
    /\ result

\* C3: a hole and a round peg of equal radius (R == r) fit: the
\* comparison is inclusive.
C3_TieFits ==
    ( /\ Checked({"RoundPeg"})
      /\ ~IsNaN(hole.radius)
      /\ checked.radius = hole.radius )
    => result

C3_Witness ==
    /\ Checked({"RoundPeg"})
    /\ IsFinite(hole.radius) /\ hole.radius > 0
    /\ checked.radius = hole.radius
    /\ result

\* C4: when the adapter's radius w * sqrt(2) / 2 equals R exactly, as
\* computed or in exact arithmetic, fits on the adapter returns true.
C4_ExactSquareTieFits ==
    ( /\ Checked(Adapters)
      /\ ~IsNaN(hole.radius)
      /\ \/ radii # <<>> /\ radii[1] = hole.radius
         \/ /\ IsFinite(hole.radius) /\ hole.radius >= 0
            /\ IsFinite(checked.peg.width) /\ checked.peg.width >= 0
            /\ checked.peg.width * checked.peg.width = 2 * hole.radius * hole.radius )
    => result

C4_Witness ==
    /\ Checked(Adapters) /\ radii # <<>>
    /\ IsFinite(hole.radius) /\ hole.radius > 0
    /\ checked.peg.width > hole.radius
    /\ radii[1] = hole.radius
    /\ result

\* the adapter the caller holds or has just had checked
TheAdapter == IF peg.type \in Adapters THEN peg ELSE checked

\* rho is w / sqrt(2) to within two roundings, or to within one unit of the
\* smallest subnormal where the result is subnormal
NearHalfDiagonal(rho, w) ==
    LET D == Pow2(PrecBits - 2)
    IN  \/ BelowRoot(rho, w, D + 1, D) /\ AboveRoot(rho, w, D - 1, D)
        \/ BelowRoot(rho - 1, w, 1, 1) /\ AboveRoot(rho + 1, w, 1, 1)

C6_GetRadiusRepeatable ==
    [][ (peg.type \in Adapters /\ Len(radii') > Len(radii)) =>
            /\ peg' = peg
            /\ \A i \in 1 .. Len(radii) : radii'[Len(radii')] = radii[i] ]_vars

C6_Witness ==
    /\ peg.type \in Adapters
    /\ Len(radii) >= 2
    /\ IsFinite(peg.peg.width) /\ peg.peg.width > 0
    /\ radii[2] = radii[1] /\ radii[1] > 0

\* C7: in run() the check of the round peg of radius 5.0 returns true, of
\* the square of width 5.0 true, of the square of width 10.0 false.
C7_DemonstrationResults ==
    /\ Len(returned) <= 3
    /\ \A i \in 1 .. Len(returned) : returned[i] = <<TRUE, TRUE, FALSE>>[i]
    /\ pc = "done" => Len(returned) = 3

C7_Witness == pc = "done" /\ returned = <<TRUE, TRUE, FALSE>>

Texts ==
    << "Round peg r5 fits round hole r5: ",
       "Square peg w5 fits round hole r5: ",
       "Square peg w10 doesn't fit round hole r5: " >>

Running == pc \notin { "api", "done" }

\* C8 as stated: run ends with exactly three lines, in order, each
\* reporting the result of its check.
C8_EachLineReportsItsCheck ==
    pc = "done" =>
        /\ Len(out) = 3
        /\ \A i \in 1 .. 3 : out[i] = <<Texts[i], FormatBool(returned[i])>>

\* C8 amended: run cannot stop before its end, prints its lines in order,
\* and ends with exactly three: the first two report the result of their
\* check, the third reports the negation of the result of its check.
C8_ThirdLineReportsNegation ==
    /\ Running => ENABLED Run
    /\ Len(out) = Len(returned) /\ Len(out) <= 3
    /\ \A i \in 1 .. Len(out) :
          out[i] = <<Texts[i], FormatBool(IF i = 3 THEN ~returned[i] ELSE returned[i])>>
    /\ pc = "done" => Len(out) = 3

C8_Witness ==
    /\ pc = "done"
    /\ Len(out) = 3
    /\ returned[3] = FALSE
    /\ out[3] = <<Texts[3], "true">>

\* a shape built from a negative number
NegativeShape(p) ==
    \/ p.type = "RoundPeg" /\ Negative(p.radius)
    \/ p.type \in Adapters /\ Negative(p.peg.width)

\* every constructor stores a negative argument as it is given
ConstructorsKeepNegatives ==
    \A x \in { y \in F64 : Negative(y) } :
        /\ RoundHole_new(x).radius = x
        /\ RoundPeg_lit(x).radius = x
        /\ get_width(SquarePeg_new(x)) = x

\* C9: construction takes a negative radius or width as given, and a shape
\* built from one fits every hole of non-negative radius.
C9_NegativeAcceptedAndFits ==
    /\ hole # NoValue => hole.radius = holeArg
    /\ ConstructorsKeepNegatives
    /\ (Checked(Circular) /\ NonNegative(hole.radius) /\ NegativeShape(checked))
          => result

C9_Witness ==
    /\ Checked(Adapters)
    /\ hole.radius = 0 /\ holeArg = 0
    /\ Negative(checked.peg.width)
    /\ radii # <<>> /\ radii[1] < 0
    /\ result

\* C10: no step changes a constructed hole, and a check made after any
\* number of checks returns what it returns on a hole fresh from new.
C10_HoleUnchangedByFits ==
    [][ /\ hole # NoValue => hole' = hole
        /\ ("hole" \in DOMAIN locals /\ "hole" \in DOMAIN locals')
              => locals'["hole"] = locals["hole"]
        /\ nFits' > nFits => result' = fits(RoundHole_new(holeArg), checked') ]_vars

C10_Witness ==
    /\ nFits = MaxFits
    /\ Checked(Circular)
    /\ IsFinite(holeArg) /\ hole.radius = holeArg
    /\ result

=============================================================================
